---------------------------- MODULE Spec2Model ----------------------------
(***************************************************************************)
(* libphutil, support/win32: the command-line encoder and the              *)
(* bound-lifetime process supervisor of Phutil::CallProcess                *)
(* (src/support/win32/Phutil.cpp).                                         *)
(*                                                                         *)
(* A wide string is a sequence of one-character strings; an argument list  *)
(* is a sequence of wide strings.                                          *)
(***************************************************************************)
EXTENDS Integers, Sequences, FiniteSets, TLC

VARIABLES
    argv,        \* the argument list handed to CallProcess
    pc,          \* position of the launcher inside wmain / CallProcess
    builtin,     \* IsCmdBuiltin(argv[0]), as evaluated at line 158
    quoted,      \* per argument: its text after the quoting pass (the "arg" local)
    cmd,         \* the encoded command line (the "cmd" local)
    target,      \* "unparsed" | "parsed": has the target re-tokenized cmd
    childArgv,   \* what the native argv parser made of cmd
    shellLine,   \* what the shell sees after the stub once carets are removed
    job,         \* the job handle: "none" | "null" | "open"
    jobFlags,    \* LimitFlags set on the job object
    ctrlHandler, \* the console control handler is installed
    child,       \* "none" | "running" | "exited" | "killed"
    childExit,   \* <<>> or <<the exit code the child terminated with, a DWORD>>
    grandchild,  \* "none" | "running" | "exited" | "killed"
    gcOptOut,    \* the grandchild asked to break away from the job
    inJob,       \* the processes assigned to the job object
    calls,       \* the OS operations performed so far, in order
    failed,      \* the OS operations that reported failure, in order
    ret,         \* <<>> or <<value returned by CallProcess>>
    stderr,      \* lines written to the diagnostic stream
    exitStatus   \* <<>> or <<the launcher's process exit status, a DWORD>>

encVars == <<argv, pc, builtin, quoted, cmd, target, childArgv, shellLine>>
supVars == <<job, jobFlags, ctrlHandler, child, childExit, grandchild,
             gcOptOut, inJob, calls, failed, ret, stderr, exitStatus>>
vars == <<argv, pc, builtin, quoted, cmd, target, childArgv, shellLine,
          job, jobFlags, ctrlHandler, child, childExit, grandchild,
          gcOptOut, inJob, calls, failed, ret, stderr, exitStatus>>

-----------------------------------------------------------------------------
(* Bounds of the checked input space.                                      *)

\* Longest free argument drawn in the encoder specification.
MaxArgLen == 4

-----------------------------------------------------------------------------
(* Characters.                                                             *)

kQuote == "\""
kBackslash == "\\"
kSpace == " "
kTab == "\t"
kCaret == "^"

\* The printable ASCII characters, code 32 first (code 96, the grave accent,
\* is held by a placeholder: no string of the model contains it).
AsciiPrintable ==
    << " ", "!", "\"", "#", "$", "%", "&", "'", "(", ")", "*", "+", ",", "-",
       ".", "/", "0", "1", "2", "3", "4", "5", "6", "7", "8", "9", ":", ";",
       "<", "=", ">", "?", "@", "A", "B", "C", "D", "E", "F", "G", "H", "I",
       "J", "K", "L", "M", "N", "O", "P", "Q", "R", "S", "T", "U", "V", "W",
       "X", "Y", "Z", "[", "\\", "]", "^", "_", "GRAVE", "a", "b", "c", "d", "e",
       "f", "g", "h", "i", "j", "k", "l", "m", "n", "o", "p", "q", "r", "s",
       "t", "u", "v", "w", "x", "y", "z", "{", "|", "}", "~" >>

\* The code unit of a character (wchar_t value).
Ord(c) ==
    IF c = kTab THEN 9
    ELSE 31 + (CHOOSE i \in 1..Len(AsciiPrintable) : AsciiPrintable[i] = c)

\* towlower in the C locale, on code units: 'A'..'Z' map to 'a'..'z'.
towlower(code) == IF code >= 65 /\ code <= 90 THEN code + 32 ELSE code

\* n copies of the character c (std::wstring::append(n, c)).
RECURSIVE Rep(_, _)
Rep(n, c) == IF n <= 0 THEN <<>> ELSE <<c>> \o Rep(n - 1, c)

\* std::wcspbrk(s, set) != nullptr
ContainsAny(s, set) == \E i \in 1..Len(s) : s[i] \in set

-----------------------------------------------------------------------------
(* The builtin-name table and its lookup.                                  *)

kCmdBuiltins ==
  << <<"a","s","s","o","c">>, <<"b","r","e","a","k">>, <<"c","a","l","l">>,
     <<"c","d">>, <<"c","h","d","i","r">>, <<"c","l","s">>,
     <<"c","o","l","o","r">>, <<"c","o","p","y">>, <<"d","a","t","e">>,
     <<"d","e","l">>, <<"d","i","r">>, <<"d","p","a","t","h">>,
     <<"e","c","h","o">>, <<"e","n","d","l","o","c","a","l">>,
     <<"e","r","a","s","e">>, <<"e","x","i","t">>, <<"f","o","r">>,
     <<"f","t","y","p","e">>,
     <<"g","o","t","o">>, <<"i","f">>, <<"k","e","y","s">>,
     <<"m","d">>, <<"m","k","d","i","r">>, <<"m","k","l","i","n","k">>,
     <<"m","o","v","e">>, <<"p","a","t","h">>, <<"p","a","u","s","e">>,
     <<"p","o","p","d">>, <<"p","r","o","m","p","t">>, <<"p","u","s","h","d">>,
     <<"r","d">>, <<"r","e","m">>, <<"r","e","n">>,
     <<"r","e","n","a","m","e">>, <<"r","m","d","i","r">>, <<"s","e","t">>,
     <<"s","e","t","l","o","c","a","l">>, <<"s","h","i","f","t">>,
     <<"s","t","a","r","t">>, <<"t","i","m","e">>, <<"t","i","t","l","e">>,
     <<"t","y","p","e">>,
     <<"v","e","r">>, <<"v","e","r","i","f","y">>, <<"v","o","l">> >>

\* A faulty variant of _wcsicmp: the comparison without case folding (wcscmp).
RECURSIVE wcscmp_CaseSensitive(_, _)
wcscmp_CaseSensitive(a, b) ==
    IF a = <<>> /\ b = <<>> THEN 0
    ELSE IF a = <<>> THEN -1
    ELSE IF b = <<>> THEN 1
    ELSE IF Ord(a[1]) # Ord(b[1]) THEN Ord(a[1]) - Ord(b[1])
    ELSE wcscmp_CaseSensitive(Tail(a), Tail(b))

\* ::_wcsicmp(a, b): compares the lower-cased code units; the end of a string
\* (the terminating zero) is below every character.
RECURSIVE wcsicmp(_, _)
wcsicmp(a, b) ==
    IF a = <<>> /\ b = <<>> THEN 0
    ELSE IF a = <<>> THEN -1
    ELSE IF b = <<>> THEN 1
    ELSE IF towlower(Ord(a[1])) # towlower(Ord(b[1]))
         THEN towlower(Ord(a[1])) - towlower(Ord(b[1]))
    ELSE wcsicmp(Tail(a), Tail(b))

\* The comparator handed to std::binary_search.
Comp(a, b) == wcsicmp(a, b) < 0

\* std::lower_bound over table[first..]: the first position whose element is
\* not Comp-less than value (count elements remain to be searched).
RECURSIVE LowerBound(_, _, _, _)
LowerBound(table, value, first, count) ==
    IF count <= 0 THEN first
    ELSE LET step == count \div 2
             it   == first + step
         IN  IF Comp(table[it], value)
             THEN LowerBound(table, value, it + 1, count - (step + 1))
             ELSE LowerBound(table, value, first, step)

\* std::binary_search(begin, end, candidate, comp)
IsCmdBuiltin(candidate) ==
    LET n     == Len(kCmdBuiltins)
        first == LowerBound(kCmdBuiltins, candidate, 1, n)
    IN  first # n + 1 /\ ~Comp(candidate, kCmdBuiltins[first])

-----------------------------------------------------------------------------
(* Native quoting.                                                         *)

\* The loop of EscapeArgWin32: <<result, span_begin, consecutive_backslash_count>>
\* after the characters it..end have been scanned.
RECURSIVE EscapeLoop(_, _, _, _, _)
EscapeLoop(arg, it, span_begin, count, result) ==
    IF it > Len(arg) THEN <<result, span_begin, count>>
    ELSE IF arg[it] = kBackslash
         THEN EscapeLoop(arg, it + 1, span_begin, count + 1, result)
    ELSE IF arg[it] = kQuote
         THEN EscapeLoop(arg, it + 1, it, 0,
                         result \o SubSeq(arg, span_begin, it - 1)
                                \o Rep(count + 1, kBackslash))
    ELSE EscapeLoop(arg, it + 1, span_begin, 0, result)

\* A faulty variant of EscapeArgWin32: the trailing backslash run is not appended
\* again before the closing quote (line 62 left out).
EscapeArgWin32_NoTrailing(arg) ==
    LET r == EscapeLoop(arg, 1, 1, 0, <<kQuote>>)
    IN  r[1] \o SubSeq(arg, r[2], Len(arg)) \o <<kQuote>>

EscapeArgWin32(arg) ==
    LET r == EscapeLoop(arg, 1, 1, 0, <<kQuote>>)
    IN  r[1] \o SubSeq(arg, r[2], Len(arg)) \o Rep(r[3], kBackslash)
             \o <<kQuote>>

\* kEscapeSet of EncodeCommandLineWin32
kEscapeSetWin32 == {" ", "\"", "~", "@", "?", "*", "["}

\* kEscapeSet of EncodeCommandLineCmd
kEscapeSetCmd == {" ", "\""}

\* The quoting decision of EncodeCommandLineWin32 for one argument.
QuoteArgWin32(arg) ==
    IF Len(arg) # 0 /\ ~ContainsAny(arg, kEscapeSetWin32)
    THEN arg
    ELSE EscapeArgWin32(arg)

\* A variant of QuoteArgCmd: the decision is taken with the escape set of
\* EncodeCommandLineWin32.
QuoteArgCmd_NativeSet(arg) ==
    IF Len(arg) # 0 /\ ~ContainsAny(arg, kEscapeSetWin32)
    THEN arg
    ELSE EscapeArgWin32(arg)

\* The quoting decision of EncodeCommandLineCmd for one argument.
QuoteArgCmd(arg) ==
    IF Len(arg) # 0 /\ ~ContainsAny(arg, kEscapeSetCmd)
    THEN arg
    ELSE EscapeArgWin32(arg)

\* The texts appended by EncodeCommandLineWin32, one per argument.
QuotedWin32(args) == [i \in 1..Len(args) |-> QuoteArgWin32(args[i])]

\* The "arg" locals of EncodeCommandLineCmd, one per argument.
QuotedCmd(args) == [i \in 1..Len(args) |-> QuoteArgCmd(args[i])]

\* The loop of EncodeCommandLineWin32 from argument i on.
RECURSIVE Win32Loop(_, _, _)
Win32Loop(args, i, result) ==
    IF i > Len(args) THEN result
    ELSE Win32Loop(args, i + 1,
                   result \o (IF i # 1 THEN <<kSpace>> ELSE <<>>)
                          \o QuoteArgWin32(args[i]))

EncodeCommandLineWin32(args) == Win32Loop(args, 1, <<>>)

-----------------------------------------------------------------------------
(* Shell quoting.                                                          *)

\* A faulty variant of isCmdMetachar: the double quote is not a metacharacter.
isCmdMetachar_NoQuote(ch) ==
    ch \in {"(", ")", "%", "!", "^", "<", ">", "&", "|"}

isCmdMetachar(ch) ==
    ch \in {"(", ")", "%", "!", "^", "\"", "<", ">", "&", "|"}

\* A faulty variant of CaretEscape: the caret is written after the character.
RECURSIVE CaretEscape_After(_, _)
CaretEscape_After(arg, isFirst) ==
    IF arg = <<>> THEN <<>>
    ELSE (IF isCmdMetachar(arg[1]) \/ (isFirst /\ arg[1] = kSpace)
          THEN <<arg[1], kCaret>> ELSE <<arg[1]>>)
         \o CaretEscape_After(Tail(arg), isFirst)

\* The two character loops of EncodeCommandLineCmd: isFirst is i == 0.
RECURSIVE CaretEscape(_, _)
CaretEscape(arg, isFirst) ==
    IF arg = <<>> THEN <<>>
    ELSE (IF isCmdMetachar(arg[1]) \/ (isFirst /\ arg[1] = kSpace)
          THEN <<kCaret, arg[1]>> ELSE <<arg[1]>>)
         \o CaretEscape(Tail(arg), isFirst)

\* L"cmd.exe /D /C"
kCmdStub == <<"c","m","d",".","e","x","e"," ","/","D"," ","/","C">>

\* The loop of EncodeCommandLineCmd from argument i on.
RECURSIVE CmdLoop(_, _, _)
CmdLoop(args, i, result) ==
    IF i > Len(args) THEN result
    ELSE CmdLoop(args, i + 1,
                 result \o <<kSpace>>
                        \o CaretEscape(QuoteArgCmd(args[i]), i = 1))

EncodeCommandLineCmd(args) == CmdLoop(args, 1, kCmdStub)


-----------------------------------------------------------------------------
(* The parsers the encoded line is written for.                            *)

\* The number of consecutive backslashes of s starting at position i.
RECURSIVE RunFrom(_, _)
RunFrom(s, i) ==
    IF i <= Len(s) /\ s[i] = kBackslash THEN 1 + RunFrom(s, i + 1) ELSE 0

\* The native argv parser: arguments are separated by spaces and tabs outside
\* quotes; 2n backslashes before a quote give n backslashes and the quote
\* opens or closes a quoted part; 2n+1 backslashes before a quote give n
\* backslashes and a literal quote; other backslashes are literal.
RECURSIVE ParseArgs(_, _, _, _, _, _)
ParseArgs(s, i, inArg, inQuote, cur, acc) ==
    IF i > Len(s) THEN (IF inArg THEN Append(acc, cur) ELSE acc)
    ELSE IF ~inArg
         THEN IF s[i] \in {kSpace, kTab}
              THEN ParseArgs(s, i + 1, FALSE, FALSE, <<>>, acc)
              ELSE ParseArgs(s, i, TRUE, FALSE, <<>>, acc)
    ELSE LET n == RunFrom(s, i)
             j == i + n
         IN  IF j <= Len(s) /\ s[j] = kQuote
             THEN IF n % 2 = 0
                  THEN ParseArgs(s, j + 1, TRUE, ~inQuote,
                                 cur \o Rep(n \div 2, kBackslash), acc)
                  ELSE ParseArgs(s, j + 1, TRUE, inQuote,
                                 cur \o Rep(n \div 2, kBackslash) \o <<kQuote>>,
                                 acc)
             ELSE IF n > 0
                  THEN ParseArgs(s, j, TRUE, inQuote,
                                 cur \o Rep(n, kBackslash), acc)
             ELSE IF s[i] \in {kSpace, kTab} /\ ~inQuote
                  THEN ParseArgs(s, i + 1, FALSE, FALSE, <<>>, Append(acc, cur))
             ELSE ParseArgs(s, i + 1, TRUE, inQuote, Append(cur, s[i]), acc)

ParseCommandLine(s) == ParseArgs(s, 1, FALSE, FALSE, <<>>, <<>>)

\* The shell's caret processing: a caret followed by a character yields that
\* character.
RECURSIVE Uncaret(_)
Uncaret(s) ==
    IF s = <<>> THEN <<>>
    ELSE IF s[1] = kCaret
         THEN IF Len(s) >= 2
              THEN <<s[2]>> \o Uncaret(SubSeq(s, 3, Len(s)))
              ELSE <<>>
    ELSE <<s[1]>> \o Uncaret(Tail(s))

-----------------------------------------------------------------------------
(* Program constants of the supervisor.                                    *)

\* GetLastError() value compared at line 195.
ERROR_FILE_NOT_FOUND == 2

\* The status returned for a program that was not found.
kNotFoundStatus == 127

\* What GetExitCodeProcess stores for a process that has not terminated.
STILL_ACTIVE == 259

\* Die's std::exit status.
kDieStatus == 1

\* PrintUsageAndExit's std::exit status.
kUsageStatus == 1

\* A DWORD is held as <<high word, low word>>, each in 0..65535.
Dword(n) == <<n \div 65536, n % 65536>>

\* The exit codes a child is let to terminate with.
ExitCodes == {<<0, 0>>, <<0, 42>>, <<0, 259>>, <<65535, 65535>>}

\* The outcomes of CreateProcessW: 0 for success, else GetLastError().
SpawnResults == {0, 2, 3, 5}

\* (int) of a DWORD, as "return rc" converts it: the same 32 bits, signed.
ToInt(rc) ==
    IF rc[1] >= 32768 THEN (rc[1] - 65536) * 65536 + rc[2]
    ELSE rc[1] * 65536 + rc[2]

\* The DWORD process exit status of an int passed to exit or returned from
\* wmain: the same 32 bits, unsigned.
ToDword(n) ==
    IF n < 0 THEN <<(n \div 65536) + 65536, n % 65536>>
    ELSE <<n \div 65536, n % 65536>>

-----------------------------------------------------------------------------
(* Inputs.                                                                 *)

cd == <<"c","d">>
echo == <<"e","c","h","o">>
notepad == <<"n","o","t","e","p","a","d",".","e","x","e">>

\* run(["cd", "C:\Program Files"]) and run(["notepad.exe", "C:\a b.txt"])
CdProgramFiles ==
    <<cd, <<"C",":","\\","P","r","o","g","r","a","m"," ","F","i","l","e","s">> >>
NotepadFile ==
    <<notepad, <<"C",":","\\","a"," ","b",".","t","x","t">> >>
EchoAmp == <<echo, <<"a","&","b">> >>

\* The characters free arguments are built from.
Alphabet == {"a", " ", "\"", "\\", "\t", "&", "^", "*"}

StringsUpTo(n) == UNION {[1..k -> Alphabet] : k \in 0..n}

\* Arguments that may follow the free argument.
Tails == { <<>>, << <<>> >>, << <<"b","\\">>, <<" ">> >> }

\* Command names of the encoder specification: a builtin and a program.
Progs == {cd, notepad}

EncodeArgvs ==
    {CdProgramFiles, NotepadFile, EchoAmp}
    \cup {<<p>> : p \in Progs}
    \cup {<<p, s>> \o t : p \in Progs, s \in StringsUpTo(MaxArgLen), t \in Tails}

Upper(s) ==
    [i \in 1..Len(s) |->
        IF Ord(s[i]) >= 97 /\ Ord(s[i]) <= 122
        THEN AsciiPrintable[Ord(s[i]) - 32 - 31] ELSE s[i]]

\* Candidate names of the classification specification: every table entry as
\* written, upper-cased and capitalised, cut short by one character, extended
\* by one character, and some names outside the table.
ClassifyCandidates ==
    LET T == {kCmdBuiltins[i] : i \in 1..Len(kCmdBuiltins)}
    IN  T \cup {Upper(t) : t \in T}
          \cup {<<Upper(t)[1]>> \o Tail(t) : t \in T}
          \cup {SubSeq(t, 1, Len(t) - 1) : t \in T}
          \cup {t \o <<c>> : t \in T, c \in {"a", "z", "_", " ", "."}}
          \cup {<<c>> \o t : t \in T, c \in {"a", "z"}}
          \cup {<<>>, notepad, <<"c","m","d">>, <<"c","d",".","e","x","e">>,
                <<"[">>, <<"_">>, <<"~">>, <<"A">>, <<"Z","z">>}

SupervisorArgvs == {<<>>, CdProgramFiles, NotepadFile, EchoAmp}

-----------------------------------------------------------------------------
(* The launcher.                                                           *)

\* The state at the entry named by entry: "wmain" for the launcher started
\* with the arguments argv after its own name, "start" for a call of
\* Phutil::CallProcess(argc, argv).
InitWith(inputs, entry) ==
    /\ argv \in inputs
    /\ pc = entry
    /\ builtin = FALSE
    /\ quoted = <<>>
    /\ cmd = <<>>
    /\ target = "unparsed"
    /\ childArgv = <<>>
    /\ shellLine = <<>>
    /\ job = "none"
    /\ jobFlags = {}
    /\ ctrlHandler = FALSE
    /\ child = "none"
    /\ childExit = <<>>
    /\ grandchild = "none"
    /\ gcOptOut = FALSE
    /\ inJob = {}
    /\ calls = <<>>
    /\ failed = <<>>
    /\ ret = <<>>
    /\ stderr = <<>>
    /\ exitStatus = <<>>

\* The launcher started with any of the argument lists, or CallProcess
\* called by another caller with no argument at all.
Init == InitWith(SupervisorArgvs, "wmain") \/ InitWith({<<>>}, "start")
InitEncode == InitWith(EncodeArgvs, "start")
InitClassify == InitWith({<<c>> : c \in ClassifyCandidates}, "start")

\* The state of a process once the launcher's handle to the job is closed:
\* a running member of a job with KILL_ON_JOB_CLOSE is terminated.
ScopeClosed(proc, state) ==
    IF /\ job = "open"
       /\ "KILL_ON_JOB_CLOSE" \in jobFlags
       /\ proc \in inJob
       /\ state = "running"
    THEN "killed"
    ELSE state

\* Die(msg): the diagnostic, then std::exit(1); the exit closes the job handle.
Die(msg) ==
    /\ pc' = "dead"
    /\ stderr' = Append(stderr, <<"FATAL", msg>>)
    /\ exitStatus' = <<ToDword(kDieStatus)>>
    /\ child' = ScopeClosed("child", child)
    /\ grandchild' = ScopeClosed("grandchild", grandchild)

Failure(op, err) == [op |-> op, err |-> err]

\* PhutilLauncher.cpp lines 8-11: the usage line, then std::exit(1).
PrintUsageAndExit ==
    /\ pc' = "usage"
    /\ stderr' = Append(stderr,
                        <<"usage", "PhutilLancher.exe prog [arg1 [arg2...]]">>)
    /\ exitStatus' = <<ToDword(kUsageStatus)>>

\* PhutilLauncher.cpp lines 14-19, up to the call: argc counts the launcher's
\* own name, so argc < 2 means no argument follows it; otherwise CallProcess
\* is entered with argc - 1 and argv + 1.
Wmain ==
    /\ pc = "wmain"
    /\ IF Len(argv) + 1 < 2
       THEN PrintUsageAndExit
       ELSE /\ pc' = "start"
            /\ UNCHANGED <<stderr, exitStatus>>
    /\ UNCHANGED <<argv, builtin, quoted, cmd, target, childArgv, shellLine,
                   job, jobFlags, ctrlHandler, child, childExit, grandchild,
                   gcOptOut, inJob, calls, failed, ret>>

\* Lines 154-159: the argc check, the classification and the encoding.
CallProcessBegin ==
    /\ pc = "start"
    /\ IF Len(argv) = 0
       THEN /\ Die("No arguments specified")
            /\ UNCHANGED <<builtin, quoted, cmd>>
       ELSE /\ builtin' = IsCmdBuiltin(argv[1])
            /\ quoted' = IF builtin' THEN QuotedCmd(argv) ELSE QuotedWin32(argv)
            /\ cmd' = IF builtin' THEN EncodeCommandLineCmd(argv)
                                  ELSE EncodeCommandLineWin32(argv)
            /\ pc' = "create_job"
            /\ UNCHANGED <<stderr, exitStatus, child, grandchild>>
    /\ UNCHANGED <<argv, target, childArgv, shellLine, job, jobFlags,
                   ctrlHandler, childExit, gcOptOut, inJob, calls, failed, ret>>

\* The target re-tokenizes the encoded line: the native argv parser for a
\* program, the shell's caret processing of the text after the stub for a
\* builtin.
TargetParse ==
    /\ pc = "create_job"
    /\ target = "unparsed"
    /\ target' = "parsed"
    /\ childArgv' = IF builtin THEN <<>> ELSE ParseCommandLine(cmd)
    /\ shellLine' = IF builtin
                    THEN Uncaret(SubSeq(cmd, Len(kCmdStub) + 1, Len(cmd)))
                    ELSE <<>>
    /\ UNCHANGED <<argv, pc, builtin, quoted, cmd>>
    /\ UNCHANGED supVars

NextEncode == CallProcessBegin \/ TargetParse

SpecEncode == InitEncode /\ [][NextEncode]_vars

SpecClassify == InitClassify /\ [][NextEncode]_vars

-----------------------------------------------------------------------------
(* The supervisor: CallProcess from line 161 on, one action per OS call,   *)
(* each with the outcomes the call can report.                             *)

\* Lines 164-170: CreateJobObject, QueryInformationJobObject and their joint
\* check.  The query is issued even when no job was created.  created: the
\* handle is not null; queried: the query returned TRUE; lenOk: the length it
\* stored is sizeof(info) (a query that returned FALSE stores none).
CreateJob ==
    /\ pc = "create_job"
    /\ \E created \in BOOLEAN, queried \in BOOLEAN, lenOk \in BOOLEAN :
          /\ ~queried => ~lenOk
          /\ job' = IF created THEN "open" ELSE "null"
          /\ calls' = calls \o <<"CreateJobObject", "QueryInformationJobObject">>
          /\ failed' = failed
                \o (IF created THEN <<>> ELSE <<Failure("CreateJobObject", 0)>>)
                \o (IF queried THEN <<>>
                    ELSE <<Failure("QueryInformationJobObject", 0)>>)
          /\ IF ~queried \/ ~lenOk \/ ~created
             THEN Die("Job information querying failed")
             ELSE /\ pc' = "set_job"
                  /\ UNCHANGED <<stderr, exitStatus, child, grandchild>>
    /\ UNCHANGED <<argv, builtin, quoted, cmd, target, childArgv, shellLine,
                   jobFlags, ctrlHandler, childExit, gcOptOut, inJob, ret>>

\* Lines 171-177: the two limit flags and SetInformationJobObject.
SetJob ==
    /\ pc = "set_job"
    /\ \E ok \in BOOLEAN :
          /\ calls' = Append(calls, "SetInformationJobObject")
          /\ IF ok
             THEN /\ jobFlags' = {"KILL_ON_JOB_CLOSE", "SILENT_BREAKAWAY_OK"}
                  /\ pc' = "ctrl_handler"
                  /\ UNCHANGED <<failed, stderr, exitStatus, child, grandchild>>
             ELSE /\ failed' = Append(failed, Failure("SetInformationJobObject", 0))
                  /\ Die("Job information setting failed")
                  /\ UNCHANGED jobFlags
    /\ UNCHANGED <<argv, builtin, quoted, cmd, target, childArgv, shellLine,
                   job, ctrlHandler, childExit, gcOptOut, inJob, ret>>

\* Lines 179-189: the standard handles and SetConsoleCtrlHandler.
SetCtrlHandler ==
    /\ pc = "ctrl_handler"
    /\ \E ok \in BOOLEAN :
          /\ calls' = Append(calls, "SetConsoleCtrlHandler")
          /\ ctrlHandler' = ok
          /\ IF ok
             THEN /\ pc' = "create_process"
                  /\ UNCHANGED <<failed, stderr, exitStatus, child, grandchild>>
             ELSE /\ failed' = Append(failed, Failure("SetConsoleCtrlHandler", 0))
                  /\ Die("control handler setting failed")
    /\ UNCHANGED <<argv, builtin, quoted, cmd, target, childArgv, shellLine,
                   job, jobFlags, childExit, gcOptOut, inJob, ret>>

\* A faulty variant of IsNotFound: every spawn failure is taken for "not found".
IsNotFound_AnyError(err) == err # 0

\* Line 195: ::GetLastError() == ERROR_FILE_NOT_FOUND
IsNotFound(err) == err = ERROR_FILE_NOT_FOUND

\* Lines 191-200: CreateProcessW (creation flags 0: the child runs at once)
\* and the handling of its failure.
CreateProcessW ==
    /\ pc = "create_process"
    /\ \E err \in SpawnResults :
          /\ calls' = Append(calls, "CreateProcessW")
          /\ IF err = 0
             THEN /\ child' = "running"
                  /\ pc' = "assign"
                  /\ UNCHANGED <<failed, stderr, exitStatus, grandchild, ret>>
             ELSE /\ failed' = Append(failed, Failure("CreateProcessW", err))
                  /\ IF IsNotFound(err)
                     THEN /\ stderr' = Append(stderr, <<"not found", argv[1]>>)
                          /\ ret' = <<kNotFoundStatus>>
                          /\ pc' = "returned"
                          /\ UNCHANGED <<exitStatus, child, grandchild>>
                     ELSE /\ Die("Unable to create process")
                          /\ UNCHANGED ret
    /\ UNCHANGED <<argv, builtin, quoted, cmd, target, childArgv, shellLine,
                   job, jobFlags, ctrlHandler, childExit, gcOptOut, inJob>>

\* Line 202: AssignProcessToJobObject; its result is not looked at.
AssignProcess ==
    /\ pc = "assign"
    /\ \E ok \in BOOLEAN :
          /\ calls' = Append(calls, "AssignProcessToJobObject")
          /\ inJob' = IF ok THEN inJob \cup {"child"} ELSE inJob
          /\ failed' = IF ok THEN failed
                       ELSE Append(failed, Failure("AssignProcessToJobObject", 0))
    /\ pc' = "close_thread"
    /\ UNCHANGED <<argv, builtin, quoted, cmd, target, childArgv, shellLine,
                   job, jobFlags, ctrlHandler, child, childExit, grandchild,
                   gcOptOut, ret, stderr, exitStatus>>

\* Line 203: CloseHandle(pi.hThread).
CloseThread ==
    /\ pc = "close_thread"
    /\ calls' = Append(calls, "CloseHandle")
    /\ pc' = "wait"
    /\ UNCHANGED <<argv, builtin, quoted, cmd, target, childArgv, shellLine,
                   job, jobFlags, ctrlHandler, child, childExit, grandchild,
                   gcOptOut, inJob, failed, ret, stderr, exitStatus>>

\* Line 205: WaitForSingleObjectEx(pi.hProcess, INFINITE, FALSE): it returns
\* once the child has terminated, or at once with WAIT_FAILED; its result is
\* not looked at.
WaitForChild ==
    /\ pc = "wait"
    /\ \E ok \in BOOLEAN :
          /\ ok => child \in {"exited", "killed"}
          /\ failed' = IF ok THEN failed
                       ELSE Append(failed, Failure("WaitForSingleObjectEx", 0))
    /\ calls' = Append(calls, "WaitForSingleObjectEx")
    /\ pc' = "get_exit"
    /\ UNCHANGED <<argv, builtin, quoted, cmd, target, childArgv, shellLine,
                   job, jobFlags, ctrlHandler, child, childExit, grandchild,
                   gcOptOut, inJob, ret, stderr, exitStatus>>

\* Lines 207-213: GetExitCodeProcess and the return of rc.
GetExitCode ==
    /\ pc = "get_exit"
    /\ \E ok \in BOOLEAN :
          /\ calls' = Append(calls, "GetExitCodeProcess")
          /\ IF ok
             THEN /\ ret' = <<ToInt(IF child = "running" THEN Dword(STILL_ACTIVE)
                                    ELSE childExit[1])>>
                  /\ pc' = "returned"
                  /\ UNCHANGED <<failed, stderr, exitStatus, child, grandchild>>
             ELSE /\ failed' = Append(failed, Failure("GetExitCodeProcess", 0))
                  /\ Die("Failed to get exit code of process")
                  /\ UNCHANGED ret
    /\ UNCHANGED <<argv, builtin, quoted, cmd, target, childArgv, shellLine,
                   job, jobFlags, ctrlHandler, childExit, gcOptOut, inJob>>

\* PhutilLauncher.cpp line 19: wmain returns CallProcess's value; the process
\* exits with it and its handle to the job is closed.
LauncherExit ==
    /\ pc = "returned"
    /\ pc' = "exited"
    /\ exitStatus' = <<ToDword(ret[1])>>
    /\ child' = ScopeClosed("child", child)
    /\ grandchild' = ScopeClosed("grandchild", grandchild)
    /\ UNCHANGED <<argv, builtin, quoted, cmd, target, childArgv, shellLine,
                   job, jobFlags, ctrlHandler, childExit, gcOptOut, inJob,
                   calls, failed, ret, stderr>>

-----------------------------------------------------------------------------
(* The spawned processes.                                                  *)

\* The running child starts a process of its own.  The new process joins the
\* job of its parent unless it asks to break away.
ChildSpawnsGrandchild ==
    /\ child = "running"
    /\ grandchild = "none"
    /\ \E optOut \in BOOLEAN :
          /\ gcOptOut' = optOut
          /\ inJob' = IF "child" \in inJob /\ ~optOut
                      THEN inJob \cup {"grandchild"} ELSE inJob
    /\ grandchild' = "running"
    /\ UNCHANGED <<argv, pc, builtin, quoted, cmd, target, childArgv,
                   shellLine, job, jobFlags, ctrlHandler, child, childExit,
                   calls, failed, ret, stderr, exitStatus>>

\* The child terminates, by itself or forcibly, with some exit code.
ChildTerminates ==
    /\ child = "running"
    /\ \E code \in ExitCodes : childExit' = <<code>>
    /\ child' = "exited"
    /\ UNCHANGED <<argv, pc, builtin, quoted, cmd, target, childArgv,
                   shellLine, job, jobFlags, ctrlHandler, grandchild, gcOptOut,
                   inJob, calls, failed, ret, stderr, exitStatus>>

\* The grandchild terminates by itself.
GrandchildTerminates ==
    /\ grandchild = "running"
    /\ grandchild' = "exited"
    /\ UNCHANGED <<argv, pc, builtin, quoted, cmd, target, childArgv,
                   shellLine, job, jobFlags, ctrlHandler, child, childExit,
                   gcOptOut, inJob, calls, failed, ret, stderr, exitStatus>>

Next ==
    \/ Wmain
    \/ CallProcessBegin
    \/ CreateJob
    \/ SetJob
    \/ SetCtrlHandler
    \/ CreateProcessW
    \/ AssignProcess
    \/ CloseThread
    \/ WaitForChild
    \/ GetExitCode
    \/ LauncherExit
    \/ ChildSpawnsGrandchild
    \/ ChildTerminates
    \/ GrandchildTerminates

Spec == Init /\ [][Next]_vars

-----------------------------------------------------------------------------
(* Vocabulary of the properties.                                           *)

\* The encoding step has run on a non-empty argument list.
Encoded == pc \notin {"wmain", "usage", "start", "dead"} /\ Len(argv) > 0

\* The number of consecutive backslashes of s that end just before position i.
RECURSIVE RunBefore(_, _)
RunBefore(s, i) ==
    IF i > 1 /\ s[i - 1] = kBackslash THEN 1 + RunBefore(s, i - 1) ELSE 0

\* The length of the run of backslashes s ends in.
TrailingRun(s) == RunBefore(s, Len(s) + 1)

\* The positions of the double quotes of s, ascending.
QuotePositions(s) ==
    SelectSeq([i \in 1..Len(s) |-> i], LAMBDA i : s[i] = kQuote)

\* Argument i went through EscapeArgWin32 (its text is not the verbatim one).
WasEscaped(i) == quoted[i] # argv[i]

\* The characters the shell treats as metacharacters.
ShellMetachars == {"(", ")", "%", "!", "^", "\"", "<", ">", "&", "|"}

\* The characters after which the native rule quotes an argument.
NativeSpecials == {" ", "\"", "~", "@", "?", "*", "["}

\* The glob characters among them.
GlobSpecials == {"~", "@", "?", "*", "["}

\* Every text of seqs with one space before it, concatenated.
RECURSIVE SpaceJoined(_)
SpaceJoined(seqs) ==
    IF seqs = <<>> THEN <<>>
    ELSE <<kSpace>> \o seqs[1] \o SpaceJoined(Tail(seqs))

\* For each position of s: is it a caret that escapes the next character.
RECURSIVE EscapeFlags(_)
EscapeFlags(s) ==
    IF s = <<>> THEN <<>>
    ELSE IF s[1] = kCaret
         THEN IF Len(s) >= 2
              THEN <<TRUE, FALSE>> \o EscapeFlags(SubSeq(s, 3, Len(s)))
              ELSE <<TRUE>>
    ELSE <<FALSE>> \o EscapeFlags(Tail(s))

\* The encoded line after the shell stub.
AfterStub == SubSeq(cmd, Len(kCmdStub) + 1, Len(cmd))

\* The line begins with the shell stub.
StartsWithStub(s) ==
    Len(s) >= Len(kCmdStub) /\ SubSeq(s, 1, Len(kCmdStub)) = kCmdStub

EqualIgnoringCase(a, b) ==
    /\ Len(a) = Len(b)
    /\ \A i \in 1..Len(a) : towlower(Ord(a[i])) = towlower(Ord(b[i]))

\* Plain membership of a name in the builtin table, letter case ignored.
InTable(name) ==
    \E i \in 1..Len(kCmdBuiltins) : EqualIgnoringCase(name, kCmdBuiltins[i])

TableSorted ==
    \A i, j \in 1..Len(kCmdBuiltins) :
        i < j => wcsicmp(kCmdBuiltins[i], kCmdBuiltins[j]) < 0

HasFailed(op) == \E i \in 1..Len(failed) : failed[i].op = op

SpawnFailedWith(errs) ==
    \E i \in 1..Len(failed) :
        failed[i].op = "CreateProcessW" /\ failed[i].err \in errs

Called(op) == \E i \in 1..Len(calls) : calls[i] = op

FatalPrinted == \E i \in 1..Len(stderr) : stderr[i][1] = "FATAL"

-----------------------------------------------------------------------------
(* Properties.                                                             *)

\* C1: native round trip.  Once the native argv parser has re-tokenized the
\* line EncodeCommandLineWin32 produced, it has exactly the original argument
\* list: same count, same order, same characters (no argument of the model
\* contains a line terminator).
C1_NativeRoundTrip ==
    (target = "parsed" /\ ~builtin) => childArgv = argv

\* C2: lifetime scope.  Every running process descended from the spawned child
\* that did not opt out is a member of the job, and once the job is closed by
\* the launcher's exit no such process is still running.
C2_LifetimeScope ==
    /\ (grandchild = "running" /\ ~gcOptOut) => "grandchild" \in inJob
    /\ (pc \in {"exited", "dead"} /\ ~gcOptOut) => grandchild # "running"

\* C3: exit-status propagation.  When the spawn succeeded and CallProcess has
\* returned, the child has terminated and the returned value is the exit code
\* it terminated with.
C3_ExitStatusPropagation ==
    (pc = "returned" /\ child # "none") =>
        /\ child = "exited"
        /\ ret = <<ToInt(childExit[1])>>

\* C4: not-found path.  A spawn that failed with ERROR_FILE_NOT_FOUND makes
\* CallProcess return 127 with no FATAL diagnostic, no exit with status 1, no
\* child, and neither an attach nor a wait; a spawn that failed for any other
\* reason ends in the fatal state and nothing is returned.
C4_NotFoundPath ==
    /\ SpawnFailedWith({ERROR_FILE_NOT_FOUND}) =>
          /\ pc \in {"returned", "exited"}
          /\ ret = <<127>>
          /\ ~FatalPrinted
          /\ stderr = << <<"not found", argv[1]>> >>
          /\ exitStatus \in {<<>>, <<Dword(127)>>}
          /\ child = "none"
          /\ ~Called("AssignProcessToJobObject")
          /\ ~Called("WaitForSingleObjectEx")
    /\ SpawnFailedWith(SpawnResults \ {0, ERROR_FILE_NOT_FOUND}) =>
          /\ pc = "dead"
          /\ ret = <<>>
          /\ FatalPrinted
          /\ exitStatus = <<Dword(1)>>
          /\ child = "none"

\* A spawn of a native program failed as "not found" and the launcher has
\* exited with 127.
C4_Witness ==
    /\ argv = NotepadFile
    /\ ~builtin
    /\ SpawnFailedWith({ERROR_FILE_NOT_FOUND})
    /\ pc = "exited"
    /\ ret = <<127>>
    /\ exitStatus = <<Dword(127)>>

\* C5: fatal policy.  Whenever an OS operation other than a "not found" spawn
\* has failed, the launcher is in the fatal state: the FATAL diagnostic is
\* printed, the process has exited with status 1, and no step followed.
C5_FatalPolicy ==
    (\E i \in 1..Len(failed) :
        ~(failed[i].op = "CreateProcessW" /\ failed[i].err = ERROR_FILE_NOT_FOUND))
    => /\ pc = "dead"
       /\ FatalPrinted
       /\ exitStatus = <<Dword(1)>>

\* C6 (as amended): for a builtin followed by one argument that contains a
\* space and no shell metacharacter, the line is the stub, a space, argv[0], a
\* space, and the argument's natively quoted text with a caret before each of
\* its two double quotes; ["cd", "C:\Program Files"] gives
\* cmd.exe /D /C cd ^"C:\Program Files^".
C6_ShellEndToEnd ==
    /\ (/\ Encoded
        /\ builtin
        /\ Len(argv) = 2
        /\ ContainsAny(argv[2], {kSpace})
        /\ ~ContainsAny(argv[2], ShellMetachars))
       => cmd = kCmdStub \o <<kSpace>> \o argv[1] \o <<kSpace>>
                  \o <<kCaret, kQuote>> \o argv[2]
                  \o Rep(TrailingRun(argv[2]), kBackslash)
                  \o <<kCaret, kQuote>>
    /\ (Encoded /\ argv = CdProgramFiles)
       => cmd = <<"c","m","d",".","e","x","e"," ","/","D"," ","/","C"," ",
                  "c","d"," ","^","\"","C",":","\\","P","r","o","g","r","a","m",
                  " ","F","i","l","e","s","^","\"">>

\* C6 (as claimed): the argument is wrapped in plain double quotes;
\* ["cd", "C:\Program Files"] gives cmd.exe /D /C cd "C:\Program Files".
C6_PlainDoubleQuotes ==
    /\ (/\ Encoded
        /\ builtin
        /\ Len(argv) = 2
        /\ ContainsAny(argv[2], {kSpace})
        /\ ~ContainsAny(argv[2], ShellMetachars))
       => cmd = kCmdStub \o <<kSpace>> \o argv[1] \o <<kSpace>>
                  \o <<kQuote>> \o argv[2] \o <<kQuote>>
    /\ (Encoded /\ argv = CdProgramFiles)
       => cmd = <<"c","m","d",".","e","x","e"," ","/","D"," ","/","C"," ",
                  "c","d"," ","\"","C",":","\\","P","r","o","g","r","a","m",
                  " ","F","i","l","e","s","\"">>

\* ["cd", "C:\Program Files"] has been encoded for the shell.
C6_Witness ==
    /\ argv = CdProgramFiles
    /\ Encoded
    /\ builtin
    /\ quoted[2] = <<kQuote>> \o argv[2] \o <<kQuote>>

\* C7: shell-path escaping.  After the stub, every shell metacharacter is
\* preceded by one inserted caret, no other character gains a caret, and
\* removing the caret escapes gives back the quoted arguments, each after one
\* space; the shell therefore sees the metacharacters as literals.
C7_ShellEscaping ==
    (Encoded /\ builtin) =>
        LET b == AfterStub
            f == EscapeFlags(b)
        IN  /\ StartsWithStub(cmd)
            /\ \A j \in 1..Len(b) :
                  (~f[j] /\ b[j] \in ShellMetachars) => (j > 1 /\ f[j - 1])
            /\ \A j \in 1..Len(b) :
                  f[j] => (j < Len(b) /\ b[j + 1] \in ShellMetachars)
            /\ Uncaret(b) = SpaceJoined(quoted)
            /\ target = "parsed" => shellLine = SpaceJoined(quoted)

\* echo a&b has been encoded as echo a^&b and the shell sees the literal a&b.
C7_Witness ==
    /\ argv = EchoAmp
    /\ builtin
    /\ target = "parsed"
    /\ AfterStub = <<" ","e","c","h","o"," ","a","^","&","b">>
    /\ shellLine = <<" ","e","c","h","o"," ","a","&","b">>

\* C8: classification.  The table is sorted under the comparison used; the
\* lookup answers "builtin" exactly for the names that equal a table entry
\* when letter case is ignored; and the shell encoding is the one chosen
\* exactly for those names.
C8_Classification ==
    /\ TableSorted
    /\ Encoded =>
          /\ builtin <=> InTable(argv[1])
          /\ cmd = IF InTable(argv[1]) THEN EncodeCommandLineCmd(argv)
                                        ELSE EncodeCommandLineWin32(argv)
          /\ StartsWithStub(cmd) <=> InTable(argv[1])

\* "CD" has been classified as a builtin and encoded for the shell.
C8_Witness ==
    /\ argv = << <<"C","D">> >>
    /\ Encoded
    /\ builtin
    /\ cmd = kCmdStub \o <<" ","C","D">>

\* C9 (as amended): in the shell path an argument is left verbatim exactly
\* when it is non-empty and contains neither a space nor a double quote, and
\* is EscapeArgWin32's text otherwise; this is the native path's text for
\* every argument that contains none of ~ @ ? * [.
C9_ShellQuotingRule ==
    (Encoded /\ builtin) =>
        \A i \in 1..Len(argv) :
            /\ (quoted[i] = argv[i]) <=>
                   (argv[i] # <<>> /\ ~ContainsAny(argv[i], {kSpace, kQuote}))
            /\ WasEscaped(i) => quoted[i] = EscapeArgWin32(argv[i])
            /\ ~ContainsAny(argv[i], GlobSpecials) =>
                   quoted[i] = QuoteArgWin32(argv[i])

\* C9 (as claimed): in the shell path every argument's text is the native
\* path's text, verbatim exactly when the argument is non-empty and contains
\* none of space, double quote, ~ @ ? * [.
C9_SameAsNativeRule ==
    (Encoded /\ builtin) =>
        \A i \in 1..Len(argv) :
            /\ quoted[i] = QuoteArgWin32(argv[i])
            /\ (quoted[i] = argv[i]) <=>
                   (argv[i] # <<>> /\ ~ContainsAny(argv[i], NativeSpecials))

\* The shell path has left an argument with an asterisk verbatim and has
\* quoted another argument.
C9_Witness ==
    /\ Encoded
    /\ builtin
    /\ Len(argv) >= 3
    /\ ContainsAny(argv[2], GlobSpecials)
    /\ quoted[2] = argv[2]
    /\ WasEscaped(3)

\* C10 (as amended): the text EscapeArgWin32 gives for an argument begins and
\* ends with a double quote and has the argument's double quotes between
\* them; a run of n backslashes before an embedded quote appears as 2n+1
\* backslashes before that quote, and a run of n backslashes at the end of the
\* argument appears as 2n backslashes before the closing quote.
C10_BackslashRuns ==
    Encoded =>
        \A i \in 1..Len(argv) : WasEscaped(i) =>
            LET a  == argv[i]
                q  == quoted[i]
                qa == QuotePositions(a)
                qq == QuotePositions(q)
            IN  /\ Len(qq) = Len(qa) + 2
                /\ qq[1] = 1
                /\ qq[Len(qq)] = Len(q)
                /\ \A k \in 1..Len(qa) :
                      RunBefore(q, qq[k + 1]) = 2 * RunBefore(a, qa[k]) + 1
                /\ RunBefore(q, Len(q)) = 2 * TrailingRun(a)

\* C10 (as claimed): the trailing run of n backslashes appears as exactly n
\* backslashes before the closing quote.
C10_TrailingRunUndoubled ==
    Encoded =>
        \A i \in 1..Len(argv) : WasEscaped(i) =>
            LET a  == argv[i]
                q  == quoted[i]
                qa == QuotePositions(a)
                qq == QuotePositions(q)
            IN  /\ Len(qq) = Len(qa) + 2
                /\ \A k \in 1..Len(qa) :
                      RunBefore(q, qq[k + 1]) = 2 * RunBefore(a, qa[k]) + 1
                /\ RunBefore(q, Len(q)) = TrailingRun(a)

\* An argument with a backslash before an embedded quote and a backslash at
\* its end has been quoted: \"\ became "\\\"\\".
C10_Witness ==
    /\ Encoded
    /\ Len(argv) >= 2
    /\ argv[2] = <<kBackslash, kQuote, kBackslash>>
    /\ quoted[2] = <<kQuote, kBackslash, kBackslash, kBackslash, kQuote,
                     kBackslash, kBackslash, kQuote>>

=============================================================================
